---- MODULE Spec2Model ----
(***************************************************************************)
(* priority-notify: the in-process SSE broker (app/sse.py), the stream     *)
(* endpoint that uses it, the identity resolution of app/auth.py and the   *)
(* notification and token routes, as state machines.                       *)
(*                                                                         *)
(* Request handlers are coroutines on one event loop; a handler runs       *)
(* without interruption between two awaits that really suspend.  The       *)
(* broker's subscribe and unsubscribe are plain functions and publish      *)
(* awaits only put() on unbounded queues, which never suspends, so each    *)
(* broker call is one atomic step.                                         *)
(***************************************************************************)
EXTENDS Integers, Sequences, FiniteSets, TLC

\* ------------------------------------------------------------- bounds
MaxChan == 2        \* queues ever created by subscribe
MaxPublish == 2     \* publish calls that reach a live queue
MaxTokens == 1      \* ClientToken rows ever inserted
MaxTime == 1        \* clock ticks in one behaviour
MaxNotifs == 1      \* Notification rows ever inserted
MaxRows == 2
MaxFlight == 2
MaxStates == 2        \* rows of the table a list request is run against

\* ------------------------------------------------------------- values
UserIds == {"U1", "U2"}
EventTypes == {"notification", "status_change"}
DataVals == {"n1"}
NoChan == 0
None == "None"      \* Python's None where the other values are strings
Never == -1         \* Python's None where the other values are times
GhostUser == "U3"   \* a well-formed user id with no row in the users table

VARIABLES
    subscribers,    \* SSEBroker._subscribers: user id -> set of queues
    queues,         \* queues[q]: content of the q-th asyncio.Queue created
    delivered,      \* history: what queue.get() has returned from queue q
    chanOwner,      \* history: chanOwner[q] is the user subscribe(user) made q for
    live,           \* history: queues subscribed and not yet unsubscribed by their owner
    expected,       \* history: expected[q] numbers the publish calls issued for
                    \*          q's owner while q was live
    call,           \* history: the last broker call and how it ended
    users,          \* table users: the ids of its rows
    tokens,         \* table client_tokens: row id -> row
    tokenCount,     \* ClientToken rows inserted so far (uuid4 ids are never reused)
    plain,          \* history: plain[k] is the plaintext row k was created from
    notifications,  \* table notifications: row id -> row
    notifCount,     \* Notification rows inserted so far
    now,            \* the clock, in ticks of TickSeconds
    conns,          \* stream connections: queue -> the state of the request that
                    \*   subscribed it (its event_generator and its client)
    resp,           \* history: the last HTTP request, classified, and its response
    publishing,     \* publish calls suspended inside their loop over the user's queues
    inflight,       \* update_notification requests between two of their awaits
    pending_states, \* routes/auth.py _pending_states
    stateCount,     \* history: state values login has generated so far
    userRows        \* table users: row id -> sub, email, last_login_at

loginVars == <<pending_states, stateCount, userRows>>
flowVars == <<publishing, inflight, loginVars>>
brokerVars == <<subscribers, queues, delivered, chanOwner, live, expected, call>>
dbVars == <<users, tokens, tokenCount, plain, notifications, notifCount>>
vars == <<subscribers, queues, delivered, chanOwner, live, expected, call,
          users, tokens, tokenCount, plain, notifications, notifCount, now, conns, resp,
          publishing, inflight, pending_states, stateCount, userRows>>

Chans == 1..Len(queues)

\* ------------------------------------------------------------- SSEBroker
\* defaultdict(set).__getitem__: a missing key is inserted with an empty set
Touch(reg, u) ==
    IF u \in DOMAIN reg THEN reg ELSE reg @@ (u :> {})

DelKey(reg, u) == [k \in (DOMAIN reg) \ {u} |-> reg[k]]

\* self._subscribers[user_id].add(queue)
SubscribeReg(reg, u, q) ==
    [Touch(reg, u) EXCEPT ![u] = @ \cup {q}]

\* a broken unsubscribe that forgets to prune the emptied entry
UnsubscribeNoPrune(reg, u, q) ==
    [Touch(reg, u) EXCEPT ![u] = @ \ {q}]

\* a broken unsubscribe that leaves the queue registered
UnsubscribeNoDiscard(reg, u, q) ==
    LET r1 == Touch(reg, u)
    IN  IF r1[u] = {} THEN DelKey(r1, u) ELSE r1

\* discard(queue); if not self._subscribers[user_id]: del self._subscribers[user_id]
UnsubscribeReg(reg, u, q) ==
    LET r1 == Touch(reg, u)
        r2 == [r1 EXCEPT ![u] = @ \ {q}]
        r3 == Touch(r2, u)
    IN  IF r3[u] = {} THEN DelKey(r3, u) ELSE r3

\* set.remove in place of set.discard: KeyError for a queue that is not there
UnsubscribeRaisesRemove(reg, u, q) ==
    q \notin Touch(reg, u)[u]

\* whether unsubscribe raises: discard never does, and del finds the key
\* that the test before it has just touched
UnsubscribeRaises(reg, u, q) ==
    LET r1 == Touch(reg, u)
        r2 == [r1 EXCEPT ![u] = @ \ {q}]
        r3 == Touch(r2, u)
    IN  r3[u] = {} /\ u \notin DOMAIN r3

\* the registry after self._subscribers[user_id] in place of .get(user_id, set())
PublishRegTouch(reg, u) == Touch(reg, u)

\* the registry after publish: .get(user_id, set()) inserts nothing
PublishReg(reg, u) == reg

\* self._subscribers.get(user_id, set())
PublishTargets(reg, u) ==
    IF u \in DOMAIN reg THEN reg[u] ELSE {}

\* json.dumps(data): the payload as a string, not the payload itself
JsonDumps(d) == <<"json", d>>

\* event = {"event": event_type, "data": json.dumps(data)}; seq numbers the
\* publish call the event comes from (history, not part of the program's dict)
MkEvent(t, d, n) == [event |-> t, data |-> JsonDumps(d), seq |-> n]

\* the number of the next publish call; calls issued while the user has no
\* queue reach nothing and take no number
NextSeq ==
    LET used == UNION {{expected[q][i] : i \in DOMAIN expected[q]} : q \in DOMAIN expected}
    IN  IF used = {} THEN 1 ELSE 1 + CHOOSE m \in used : \A o \in used : o <= m

\* a publish that puts the event on the registered queues of every user
PublishQueuesBroadcast(qs, reg, u, ev) ==
    [q \in DOMAIN qs |->
        IF \E v \in DOMAIN reg : q \in reg[v] THEN Append(qs[q], ev) ELSE qs[q]]

\* a broken publish that stops after the first registered queue
PublishQueuesFirstOnly(qs, reg, u, ev) ==
    LET t == PublishTargets(reg, u)
    IN  [q \in DOMAIN qs |->
            IF t # {} /\ q = CHOOSE m \in t : \A o \in t : m <= o
            THEN Append(qs[q], ev) ELSE qs[q]]

\* for queue in ...: await queue.put(event)  (unbounded queues: put never waits)
PublishQueues(qs, reg, u, ev) ==
    [q \in DOMAIN qs |->
        IF q \in PublishTargets(reg, u) THEN Append(qs[q], ev) ELSE qs[q]]

\* the live queues of user u
LiveOf(u) == {q \in live : chanOwner[q] = u}

\* SSEBroker.subscribe
subscribe(u) ==
    /\ Len(queues) < MaxChan
    /\ LET q == Len(queues) + 1
       IN  /\ queues' = Append(queues, <<>>)
           /\ delivered' = Append(delivered, <<>>)
           /\ expected' = Append(expected, <<>>)
           /\ chanOwner' = Append(chanOwner, u)
           /\ live' = live \cup {q}
           /\ subscribers' = SubscribeReg(subscribers, u, q)
           /\ call' = [op |-> "subscribe", idle |-> FALSE, raised |-> FALSE]

\* SSEBroker.unsubscribe
unsubscribe(u, q) ==
    /\ subscribers' = UnsubscribeReg(subscribers, u, q)
    /\ live' = IF chanOwner[q] = u THEN live \ {q} ELSE live
    /\ call' = [op |-> "unsubscribe", idle |-> q \notin LiveOf(u),
                raised |-> UnsubscribeRaises(subscribers, u, q)]
    /\ UNCHANGED <<queues, delivered, chanOwner, expected>>

\* SSEBroker.publish
publish(u, t, d) ==
    /\ LiveOf(u) \cup PublishTargets(subscribers, u) # {} => NextSeq <= MaxPublish
    /\ queues' = PublishQueues(queues, subscribers, u, MkEvent(t, d, NextSeq))
    /\ subscribers' = PublishReg(subscribers, u)
    /\ expected' = [q \in DOMAIN expected |->
           IF q \in LiveOf(u) THEN Append(expected[q], NextSeq) ELSE expected[q]]
    /\ call' = [op |-> "publish", idle |-> LiveOf(u) = {}, raised |-> FALSE]
    /\ UNCHANGED <<delivered, chanOwner, live>>

\* asyncio.Queue(): maxsize defaults to 0
QUEUE_MAXSIZE == 0

\* a full() of queues that hold one item at most
FullAtOne(qs) == Len(qs) >= 1

\* asyncio.Queue.full: a queue with maxsize <= 0 is never full
Full(qs) == IF QUEUE_MAXSIZE <= 0 THEN FALSE ELSE Len(qs) >= QUEUE_MAXSIZE

\* the orders in which a for loop may visit the set S
IterOrders(S) ==
    {f \in [1..Cardinality(S) -> S] : \A i, j \in 1..Cardinality(S) : i # j => f[i] # f[j]}

\* a loop that gives up control after every put
RunPublishYielding(qs, order, ev) ==
    IF order = << >> THEN [queues |-> qs, rest |-> << >>]
    ELSE [queues |-> [qs EXCEPT ![Head(order)] = Append(@, ev)], rest |-> Tail(order)]

\* for queue in ...: await queue.put(event), run until the coroutine first gives
\* up control: Queue.put waits (while self.full()) before put_nowait, and an
\* await of a coroutine that does not wait does not yield to the event loop.
\* rest: the queues not served when control is given up
RECURSIVE RunPublish(_, _, _)
RunPublish(qs, order, ev) ==
    IF order = << >> THEN [queues |-> qs, rest |-> << >>]
    ELSE IF Full(qs[Head(order)]) THEN [queues |-> qs, rest |-> order]
    ELSE RunPublish([qs EXCEPT ![Head(order)] = Append(@, ev)], Tail(order), ev)

\* SSEBroker.publish as the event loop sees it: from the call to the point where
\* the coroutine returns or waits
publish_await(u, t, d) ==
    /\ LiveOf(u) \cup PublishTargets(subscribers, u) # {} => NextSeq <= MaxPublish
    /\ \E order \in IterOrders(PublishTargets(subscribers, u)) :
          LET ev == MkEvent(t, d, NextSeq)
              r == RunPublish(queues, order, ev)
          IN  /\ queues' = r.queues
              /\ publishing' = IF r.rest = << >> THEN publishing
                                ELSE publishing \cup {[user |-> u, event |-> ev, rest |-> r.rest]}
    /\ subscribers' = PublishReg(subscribers, u)
    /\ expected' = [q \in DOMAIN expected |->
           IF q \in LiveOf(u) THEN Append(expected[q], NextSeq) ELSE expected[q]]
    /\ call' = [op |-> "publish", idle |-> LiveOf(u) = {}, raised |-> FALSE]
    /\ UNCHANGED <<delivered, chanOwner, live>>

\* asyncio.Queue.get on a queue that holds an event: the oldest one
get(q) ==
    /\ queues[q] # <<>>
    /\ delivered' = [delivered EXCEPT ![q] = Append(@, Head(queues[q]))]
    /\ queues' = [queues EXCEPT ![q] = Tail(@)]
    /\ UNCHANGED <<subscribers, chanOwner, live, expected, call>>

\* ------------------------------------------------------------- SessionManager
SECRET_KEY == "change-me-to-a-random-secret"
OtherKey == "another-secret"
SESSION_MAX_AGE == 60 * 60 * 24 * 7
TickSeconds == 60 * 60 * 24 * 4

\* a cookie value.  kind "signed": a URLSafeTimedSerializer token made with key
\* at time iat whose payload is {"uid": uid}; kind "nouid": such a token whose
\* payload is a dict without uid; kind "nonmap": such a token whose payload is
\* a list, a string or a number; kind "garbage": a string that is no signed token; kind
\* "empty": the empty string; kind "absent": no session cookie in the request
Cookie(kind, key, uid, iat) == [kind |-> kind, key |-> key, uid |-> uid, iat |-> iat]
NoCookie == Cookie("absent", "", "", 0)

\* SessionManager.create_session at time t
create_session(user_id, t) == Cookie("signed", SECRET_KEY, user_id, t)

\* the exception data["uid"] raises when data is no mapping; the except clause
\* of validate_session does not name it
TypeError == "TypeError"

\* SessionManager.validate_session at time t: loads() raises BadSignature for a
\* string that is no token or is signed with another key, SignatureExpired for
\* an age above max_age; data["uid"] raises KeyError on a dict without uid and
\* TypeError on a payload that is no mapping
validate_session(token, t) ==
    IF token.kind \notin {"signed", "nouid", "nonmap"} \/ token.key # SECRET_KEY THEN None
    ELSE IF (t - token.iat) * TickSeconds > SESSION_MAX_AGE THEN None
    ELSE IF token.kind = "nouid" THEN None
    ELSE IF token.kind = "nonmap" THEN TypeError
    ELSE token.uid

\* ------------------------------------------------------------- API tokens
SaltSpace == 8

\* a hash_token that keeps the plaintext as the digest
hash_token_plain(plaintext, salt) == [salt |-> salt, digest |-> plaintext]

\* bcrypt.hashpw(token, salt): the salt and a digest of salt and plaintext, never
\* the plaintext itself
hash_token(plaintext, salt) ==
    [salt |-> salt, digest |-> plaintext * SaltSpace + salt + 1000]

\* a comparison that accepts every plaintext whose digest is not above the stored one
checkpw_not_above(raw, h) == hash_token(raw, h.salt).digest <= h.digest

\* bcrypt.checkpw(raw, hash): hash raw under the salt of hash and compare
checkpw(raw, h) == hash_token(raw, h.salt) = h

\* ClientToken(user_id=..., token_hash=...): last_used_at and expires_at are null
NewToken(user_id, plaintext, salt) ==
    [user_id |-> user_id, token_hash |-> hash_token(plaintext, salt),
     last_used_at |-> Never, expires_at |-> Never]

\* the Authorization header: scheme "" is no header
Header(scheme, cred) == [scheme |-> scheme, cred |-> cred]
NoHeader == Header("", 0)

\* the credentials a request may carry.  A session may have been issued up to
\* OldestSession ticks before the clock's origin.  Plaintext k is the k-th value
\* generate_api_token returned; 0 is a string it never returned
OldestSession == 0 - 2
Cookies ==
    {NoCookie, Cookie("empty", "", "", 0), Cookie("garbage", "", "", 0),
     Cookie("nouid", SECRET_KEY, "", now), Cookie("signed", OtherKey, "U1", now),
     Cookie("signed", SECRET_KEY, GhostUser, now),
     Cookie("signed", SECRET_KEY, "U2", now)}
    \cup {Cookie("signed", SECRET_KEY, "U1", t) : t \in OldestSession..now}
Bearers ==
    {NoHeader, Header("Basic", 1), Header("bearer", 1)}
    \cup {Header("Bearer", k) : k \in 0..MaxTokens}

\* ------------------------------------------------------------- identity resolution
\* get_current_user_from_session: the user row of the cookie's uid, or None
get_current_user_from_session(c) ==
    IF c.kind \in {"absent", "empty"} THEN None
    ELSE LET user_id == validate_session(c, now)
         IN  IF user_id = None \/ user_id = "" THEN None
             ELSE IF user_id \in users THEN user_id ELSE None

Min(S) == CHOOSE m \in S : \A o \in S : m <= o

\* a get_current_user_from_token that stamps every row when one verifies
get_current_user_from_token_touch_all(b) ==
    IF b.scheme # "Bearer" THEN [user |-> None, tokens |-> tokens]
    ELSE LET hits == {k \in DOMAIN tokens : hash_token(b.cred, tokens[k].token_hash.salt)
                                              = tokens[k].token_hash}
         IN  IF hits = {} THEN [user |-> None, tokens |-> tokens]
             ELSE LET ct == CHOOSE m \in hits : \A o \in hits : m <= o
                  IN  [user |-> IF tokens[ct].user_id \in users
                                THEN tokens[ct].user_id ELSE None,
                       tokens |-> [k \in DOMAIN tokens |->
                                     [tokens[k] EXCEPT !.last_used_at = now]]]

\* get_current_user_from_token: the first row whose hash verifies gets
\* last_used_at = now and is committed, then its user row is looked up
get_current_user_from_token(b) ==
    IF b.scheme # "Bearer" THEN [user |-> None, tokens |-> tokens]
    ELSE LET hits == {k \in DOMAIN tokens : checkpw(b.cred, tokens[k].token_hash)}
         IN  IF hits = {} THEN [user |-> None, tokens |-> tokens]
             ELSE LET ct == Min(hits)
                  IN  [user |-> IF tokens[ct].user_id \in users
                                THEN tokens[ct].user_id ELSE None,
                       tokens |-> [tokens EXCEPT ![ct].last_used_at = now]]

\* a get_current_user that answers 403 when a credential was presented and
\* failed, 401 when none was presented
get_current_user_leaky(c, b) ==
    LET s == get_current_user_from_session(c)
        r == get_current_user_from_token(b)
    IN  IF s # None THEN [status |-> 200, user |-> s, tokens |-> tokens]
        ELSE IF r.user # None THEN [status |-> 200, user |-> r.user, tokens |-> r.tokens]
        ELSE IF c.kind = "absent" /\ b.scheme = ""
        THEN [status |-> 401, user |-> None, tokens |-> r.tokens]
        ELSE [status |-> 403, user |-> None, tokens |-> r.tokens]

\* a get_current_user that tries the bearer token before the session cookie
get_current_user_token_first(c, b) ==
    LET r == get_current_user_from_token(b)
        s == get_current_user_from_session(c)
    IN  IF r.user # None THEN [status |-> 200, user |-> r.user, tokens |-> r.tokens]
        ELSE IF s # None THEN [status |-> 200, user |-> s, tokens |-> r.tokens]
        ELSE [status |-> 401, user |-> None, tokens |-> r.tokens]

\* a get_current_user that runs both lookups before it chooses between them
get_current_user_eager(c, b) ==
    LET s == get_current_user_from_session(c)
        r == get_current_user_from_token(b)
    IN  IF s # None THEN [status |-> 200, user |-> s, tokens |-> r.tokens]
        ELSE IF r.user # None THEN [status |-> 200, user |-> r.user, tokens |-> r.tokens]
        ELSE [status |-> 401, user |-> None, tokens |-> r.tokens]

\* get_current_user: session first, then bearer token, else 401
get_current_user(c, b) ==
    LET s == get_current_user_from_session(c)
        r == get_current_user_from_token(b)
    IN  IF s # None THEN [status |-> 200, user |-> s, tokens |-> tokens]
        ELSE IF r.user # None THEN [status |-> 200, user |-> r.user, tokens |-> r.tokens]
        ELSE [status |-> 401, user |-> None, tokens |-> r.tokens]

\* a require_session that falls back to the bearer token
require_session_or_token(c, b) == get_current_user(c, b)

\* require_session: session only, else 401
require_session(c, b) ==
    LET s == get_current_user_from_session(c)
    IN  IF s # None THEN [status |-> 200, user |-> s, tokens |-> tokens]
        ELSE [status |-> 401, user |-> None, tokens |-> tokens]

\* ------------------------------------------------------------- requests
\* what the request carried, in the words of the specification: for the cookie
\* "absent", "invalid" or the existing user a valid session stands for; for the
\* header "absent", "invalid" or the owner of the stored token that was created
\* from the presented plaintext
CookieClass(c) ==
    IF c.kind = "absent" THEN "absent"
    ELSE IF /\ c.kind = "signed"
            /\ c.key = SECRET_KEY
            /\ (now - c.iat) * TickSeconds <= SESSION_MAX_AGE
            /\ c.uid \in users
         THEN c.uid
         ELSE "invalid"
BearerClass(b) ==
    IF b.scheme = "" THEN "absent"
    ELSE IF b.scheme = "Bearer" /\ \E k \in DOMAIN tokens : plain[k] = b.cred
         THEN tokens[CHOOSE k \in DOMAIN tokens : plain[k] = b.cred].user_id
         ELSE "invalid"

\* the body of a response that is no PaginatedResponse
NoPage == [query |-> None, items |-> << >>, total |-> 0]

Resp(op, c, b, status, user, id, token) ==
    [op |-> op, cookie |-> CookieClass(c), bearer |-> BearerClass(b),
     status |-> status, user |-> user, id |-> id, token |-> token, page |-> NoPage]
NoResp ==
    [op |-> "none", cookie |-> "absent", bearer |-> "absent", status |-> 0,
     user |-> None, id |-> 0, token |-> Never, page |-> NoPage]

\* GET /api/me
me(c, b) ==
    LET a == get_current_user(c, b)
    IN  /\ tokens' = a.tokens
        /\ resp' = Resp("me", c, b, a.status, a.user, 0, Never)
        /\ UNCHANGED <<brokerVars, users, tokenCount, plain, notifications, notifCount, now, conns, flowVars>>

\* a logout that also revokes the API tokens of the session's user
logout_revoking(c, b) ==
    LET s == get_current_user_from_session(c)
    IN  /\ resp' = Resp("logout", c, b, 302, None, 0, Never)
        /\ tokens' = [k \in {j \in DOMAIN tokens : tokens[j].user_id # s} |-> tokens[k]]
        /\ UNCHANGED <<brokerVars, users, tokenCount, plain, notifications, notifCount, now, conns, flowVars>>

\* GET /auth/logout: a redirect to / that tells the client to drop the session
\* cookie; the handler has no dependency on the caller and touches no store
logout(c, b) ==
    /\ resp' = Resp("logout", c, b, 302, None, 0, Never)
    /\ UNCHANGED <<brokerVars, dbVars, now, conns, flowVars>>

\* ------------------------------------------------------------- OIDC login
\* the OIDC subject of a user who has logged in before, and that user's row
SubOf(user_id) == <<"sub", user_id>>
UserRow(sub, email, t) == [sub |-> sub, email |-> email, last_login_at |-> t]

\* how the identity provider answers during a request: well, or with a failing
\* discovery document, a failing code exchange, or an ID token that does not
\* validate (bad signature, issuer or audience, no sub)
Upstream == {"ok", "config_fails", "exchange_fails", "token_invalid"}

\* the id (uuid4) of the row a first login inserts, and the claims of ID tokens
NewUserId == "U4"
IdClaims ==
    {[sub |-> SubOf("U1"), email |-> "a@example.org"],
     [sub |-> SubOf("U1"), email |-> "b@example.org"],
     [sub |-> SubOf(NewUserId), email |-> "n@example.org"]}

\* the answer of login and callback: a redirect or an error, and the session
\* cookie it sets (NoCookie: none); id is the state value of the request
AuthResp(op, status, user, state, set_cookie) ==
    [set_cookie |-> set_cookie] @@ Resp(op, NoCookie, NoHeader, status, user, state, Never)

\* GET /auth/login: the state is generated and added before the discovery
\* document is awaited
login(upstream) ==
    LET state == stateCount + 1
    IN  /\ stateCount < MaxStates
        /\ upstream \in {"ok", "config_fails"}
        /\ stateCount' = state
        /\ pending_states' = pending_states \cup {state}
        /\ resp' = AuthResp("login", IF upstream = "ok" THEN 307 ELSE 500, None, state, NoCookie)
        /\ UNCHANGED <<brokerVars, dbVars, now, conns, publishing, inflight, userRows>>

\* a callback that leaves the state pending
callback_keep_state(state, upstream, claims) ==
    LET known == {u \in DOMAIN userRows : userRows[u].sub = claims.sub}
        user == IF known # {} THEN CHOOSE u \in known : TRUE ELSE NewUserId
    IN  /\ UNCHANGED <<pending_states, stateCount>>
        /\ IF state \notin pending_states
           THEN /\ resp' = AuthResp("callback", 307, None, state, NoCookie)
                /\ UNCHANGED <<users, userRows>>
           ELSE IF upstream # "ok"
           THEN /\ resp' = AuthResp("callback", 500, None, state, NoCookie)
                /\ UNCHANGED <<users, userRows>>
           ELSE /\ users' = users \cup {user}
                /\ userRows' = IF known # {}
                               THEN [userRows EXCEPT ![user].email = claims.email,
                                                     ![user].last_login_at = now]
                               ELSE userRows @@ (user :> UserRow(claims.sub, claims.email, now))
                /\ resp' = AuthResp("callback", 302, user, state, create_session(user, now))
        /\ UNCHANGED <<brokerVars, tokens, tokenCount, plain, notifications, notifCount, now,
                       conns, publishing, inflight>>

\* a callback that consumes the state only once the login has succeeded
callback_discard_late(state, upstream, claims) ==
    LET known == {u \in DOMAIN userRows : userRows[u].sub = claims.sub}
        user == IF known # {} THEN CHOOSE u \in known : TRUE ELSE NewUserId
    IN  /\ UNCHANGED stateCount
        /\ IF state \notin pending_states
           THEN /\ resp' = AuthResp("callback", 307, None, state, NoCookie)
                /\ UNCHANGED <<users, userRows, pending_states>>
           ELSE IF upstream # "ok"
           THEN /\ resp' = AuthResp("callback", 500, None, state, NoCookie)
                /\ UNCHANGED <<users, userRows, pending_states>>
           ELSE /\ pending_states' = pending_states \ {state}
                /\ users' = users \cup {user}
                /\ userRows' = IF known # {}
                               THEN [userRows EXCEPT ![user].email = claims.email,
                                                     ![user].last_login_at = now]
                               ELSE userRows @@ (user :> UserRow(claims.sub, claims.email, now))
                /\ resp' = AuthResp("callback", 302, user, state, create_session(user, now))
        /\ UNCHANGED <<brokerVars, tokens, tokenCount, plain, notifications, notifCount, now,
                       conns, publishing, inflight>>

\* GET /auth/callback.  The membership test and the discard have no await
\* between them.  An unknown state is redirected to /auth/login.  After the
\* discard, get_oidc_config, exchange_code_for_tokens and validate_id_token are
\* awaited; an exception of any of them leaves the handler (500) before any row
\* is touched.  Otherwise the row of the sub is updated or inserted, committed,
\* and the redirect to / sets a session cookie for it
callback(state, upstream, claims) ==
    LET known == {u \in DOMAIN userRows : userRows[u].sub = claims.sub}
        user == IF known # {} THEN CHOOSE u \in known : TRUE ELSE NewUserId
    IN  /\ UNCHANGED stateCount
        /\ IF state \notin pending_states
           THEN /\ resp' = AuthResp("callback", 307, None, state, NoCookie)
                /\ UNCHANGED <<users, userRows, pending_states>>
           ELSE /\ pending_states' = pending_states \ {state}
                /\ IF upstream # "ok"
                   THEN /\ resp' = AuthResp("callback", 500, None, state, NoCookie)
                        /\ UNCHANGED <<users, userRows>>
                   ELSE /\ users' = users \cup {user}
                        /\ userRows' =
                              IF known # {}
                              THEN [userRows EXCEPT ![user].email = claims.email,
                                                    ![user].last_login_at = now]
                              ELSE userRows @@ (user :> UserRow(claims.sub, claims.email, now))
                        /\ resp' = AuthResp("callback", 302, user, state,
                                            create_session(user, now))
        /\ UNCHANGED <<brokerVars, tokens, tokenCount, plain, notifications, notifCount, now,
                       conns, publishing, inflight>>

\* TokenResponse.model_validate(t): id, last_used_at and expires_at of the row
\* (name, device_type and created_at are not modelled); token_hash is no field
\* of the schema
TokenResponse(k, row) ==
    [id |-> k, last_used_at |-> row.last_used_at, expires_at |-> row.expires_at]

\* the rows of user_id, newest first
TokensOf(user_id) ==
    LET ids == {k \in DOMAIN tokens : tokens[k].user_id = user_id}
    IN  [i \in 1..Cardinality(ids) |->
            CHOOSE k \in ids : Cardinality({j \in ids : j > k}) = i - 1]

\* GET /api/tokens/
list_tokens(c, b) ==
    LET a == require_session(c, b)
        r == Resp("list_tokens", c, b, a.status, a.user, 0, Never)
        ids == TokensOf(a.user)
    IN  /\ tokens' = a.tokens
        /\ resp' = IF a.status = 401 THEN r
                   ELSE [r EXCEPT !.page =
                            [query |-> None,
                             items |-> [i \in DOMAIN ids |-> TokenResponse(ids[i], tokens[ids[i]])],
                             total |-> Len(ids)]]
        /\ UNCHANGED <<brokerVars, users, tokenCount, plain, notifications, notifCount, now, conns, flowVars>>

\* POST /api/tokens/: the plaintext is the next value of generate_api_token,
\* the salt the next value of bcrypt.gensalt
create_token(c, b) ==
    LET a == require_session(c, b)
        k == tokenCount + 1
    IN  /\ a.status = 401 \/ tokenCount < MaxTokens
        /\ IF a.status = 401
           THEN /\ tokens' = a.tokens
                /\ resp' = Resp("create_token", c, b, 401, None, 0, Never)
                /\ UNCHANGED <<tokenCount, plain>>
           ELSE /\ tokens' = a.tokens @@ (k :> NewToken(a.user, k, k))
                /\ tokenCount' = k
                /\ plain' = plain @@ (k :> k)
                /\ resp' = Resp("create_token", c, b, 201, a.user, k, k)
        /\ UNCHANGED <<brokerVars, users, notifications, notifCount, now, conns, flowVars>>

\* DELETE /api/tokens/{token_id}
revoke_token(c, b, token_id) ==
    LET a == require_session(c, b)
        found == token_id \in DOMAIN a.tokens /\ a.tokens[token_id].user_id = a.user
    IN  /\ IF a.status = 401
           THEN /\ tokens' = a.tokens
                /\ resp' = Resp("revoke_token", c, b, 401, None, token_id, Never)
           ELSE IF ~found
           THEN /\ tokens' = a.tokens
                /\ resp' = Resp("revoke_token", c, b, 404, a.user, token_id, Never)
           ELSE /\ tokens' = [k \in (DOMAIN a.tokens) \ {token_id} |-> a.tokens[k]]
                /\ resp' = Resp("revoke_token", c, b, 204, a.user, token_id, Never)
        /\ UNCHANGED <<brokerVars, users, tokenCount, plain, notifications, notifCount, now, conns, flowVars>>

\* time passes
Tick ==
    /\ now < MaxTime
    /\ now' = now + 1
    /\ UNCHANGED <<brokerVars, dbVars, conns, resp, flowVars>>

\* ------------------------------------------------------------- notifications
Statuses == {"unread", "read", "archived"}

\* NotificationCreate bodies: title, priority (default medium), source and
\* metadata (default None)
Payloads ==
    {[title |-> "Test alert", priority |-> "high", source |-> "ci", metadata |-> None],
     [title |-> "Disk full", priority |-> "medium", source |-> None, metadata |-> "host"]}

\* NotificationUpdate bodies: status is optional
Updates == {None} \cup Statuses

\* a Notification(...) that stamps read_at with the insertion time
NewNotificationStamped(user_id, payload, t) ==
    [user_id |-> user_id, title |-> payload.title, priority |-> payload.priority,
     status |-> "unread", source |-> payload.source, created_at |-> t,
     read_at |-> t, metadata |-> payload.metadata]

\* Notification(user_id=user.id, title=..., priority=..., source=...,
\* metadata_=...) after commit and refresh: status takes the column default,
\* read_at stays NULL, created_at is the server's time
NewNotification(user_id, payload, t) ==
    [user_id |-> user_id, title |-> payload.title, priority |-> payload.priority,
     status |-> "unread", source |-> payload.source, created_at |-> t,
     read_at |-> Never, metadata |-> payload.metadata]

\* an update that refuses to move a status backward (unread < read < archived)
ApplyUpdateForwardOnly(n, status, t) ==
    LET rank == [x \in {"unread", "read", "archived"} |->
                    IF x = "unread" THEN 0 ELSE IF x = "read" THEN 1 ELSE 2]
    IN  IF status = None THEN n
        ELSE IF rank[status] < rank[n.status] THEN n
        ELSE IF status = "read" /\ n.read_at = Never
             THEN [n EXCEPT !.status = status, !.read_at = t]
             ELSE [n EXCEPT !.status = status]

\* an update that stamps read_at on every status read
ApplyUpdateRestamp(n, status, t) ==
    IF status = None THEN n
    ELSE IF status = "read"
         THEN [n EXCEPT !.status = status, !.read_at = t]
         ELSE [n EXCEPT !.status = status]

\* an update that assigns the status and never stamps read_at
ApplyUpdateUnstamped(n, status, t) ==
    IF status = None THEN n
    ELSE [n EXCEPT !.status = status]

\* the body of update_notification on the row it found
ApplyUpdate(n, status, t) ==
    IF status = None THEN n
    ELSE IF status = "read" /\ n.read_at = Never
         THEN [n EXCEPT !.status = status, !.read_at = t]
         ELSE [n EXCEPT !.status = status]

\* a lookup by id alone
FindNotificationAnyOwner(notification_id, user_id) ==
    IF notification_id \in DOMAIN notifications THEN notification_id ELSE NoChan

\* select(Notification).where(id == notification_id, user_id == user.id)
FindNotification(notification_id, user_id) ==
    IF /\ notification_id \in DOMAIN notifications
       /\ notifications[notification_id].user_id = user_id
    THEN notification_id ELSE NoChan

\* NotificationResponse.model_validate(notification).model_dump(mode="json")
ResponseDump(id, n) == [id |-> id, row |-> n]

\* a handler that builds its event from the row as it was before the mutation
\* was committed
RefreshedStale(before, after) == before

\* db.commit() then db.refresh(notification): what the handler reads from the
\* row afterwards is what the store holds
Refreshed(before, after) == after

\* POST /api/notifications/
create_notification(c, b, payload) ==
    LET a == get_current_user(c, b)
        id == notifCount + 1
        n == NewNotification(a.user, payload, now)
    IN  /\ a.status = 401 \/ notifCount < MaxNotifs
        /\ tokens' = a.tokens
        /\ IF a.status = 401
           THEN /\ resp' = Resp("create_notification", c, b, 401, None, 0, Never)
                /\ UNCHANGED <<brokerVars, notifications, notifCount>>
           ELSE /\ notifications' = notifications @@ (id :> n)
                /\ notifCount' = id
                /\ publish(a.user, "notification", ResponseDump(id, n))
                /\ resp' = Resp("create_notification", c, b, 201, a.user, id, Never)
        /\ UNCHANGED <<users, tokenCount, plain, now, conns, flowVars>>

\* GET /api/notifications/{notification_id}
get_notification(c, b, notification_id) ==
    LET a == get_current_user(c, b)
    IN  /\ tokens' = a.tokens
        /\ resp' = IF a.status = 401
                   THEN Resp("get_notification", c, b, 401, None, 0, Never)
                   ELSE IF FindNotification(notification_id, a.user) = NoChan
                   THEN Resp("get_notification", c, b, 404, a.user, notification_id, Never)
                   ELSE Resp("get_notification", c, b, 200, a.user, notification_id, Never)
        /\ UNCHANGED <<brokerVars, users, tokenCount, plain, notifications, notifCount,
                       now, conns, flowVars>>

\* PATCH /api/notifications/{notification_id}
update_notification(c, b, notification_id, status) ==
    LET a == get_current_user(c, b)
        id == FindNotification(notification_id, a.user)
    IN  /\ tokens' = a.tokens
        /\ IF a.status = 401
           THEN /\ resp' = Resp("update_notification", c, b, 401, None, 0, Never)
                /\ UNCHANGED <<brokerVars, notifications>>
           ELSE IF id = NoChan
           THEN /\ resp' = Resp("update_notification", c, b, 404, a.user, notification_id, Never)
                /\ UNCHANGED <<brokerVars, notifications>>
           ELSE LET n == ApplyUpdate(notifications[id], status, now)
                IN  /\ notifications' = [notifications EXCEPT ![id] = n]
                    /\ publish(a.user, "status_change",
                               [id |-> id,
                                status |-> Refreshed(notifications[id], n).status])
                    /\ resp' = Resp("update_notification", c, b, 200, a.user, id, Never)
        /\ UNCHANGED <<users, tokenCount, plain, notifCount, now, conns, flowVars>>

\* ------------------------------------------------------------- update, await by await
\* every request gets a database session of its own from get_db; a session
\* keeps the row objects it has loaded and, on commit, writes the attributes
\* the handler has changed on them
WriteBack(stored, loaded, changed) ==
    [f \in DOMAIN stored |-> IF changed[f] # loaded[f] THEN changed[f] ELSE stored[f]]

\* update_notification up to the return of await db.execute(select(...)): the
\* request is answered 401 or 404, or holds the row as its session loaded it
update_select(c, b, notification_id, status) ==
    LET a == get_current_user(c, b)
        id == FindNotification(notification_id, a.user)
        r == CHOOSE k \in 1..(Cardinality(DOMAIN inflight) + 1) : k \notin DOMAIN inflight
    IN  /\ tokens' = a.tokens
        /\ IF a.status = 401
           THEN /\ resp' = Resp("update_notification", c, b, 401, None, 0, Never)
                /\ UNCHANGED inflight
           ELSE IF id = NoChan
           THEN /\ resp' = Resp("update_notification", c, b, 404, a.user, notification_id, Never)
                /\ UNCHANGED inflight
           ELSE /\ Cardinality(DOMAIN inflight) < MaxFlight
                /\ inflight' = inflight @@
                       (r :> [cookie |-> c, bearer |-> b, user |-> a.user, id |-> id,
                              status |-> status, row |-> notifications[id]])
                /\ UNCHANGED resp
        /\ UNCHANGED <<brokerVars, users, tokenCount, plain, notifications, notifCount, now,
                       conns, publishing, loginVars>>

\* update_notification from there: the status and read_at assignments on the
\* loaded row, await db.commit(), await db.refresh(), the publish, the answer.
\* When the row was deleted meanwhile, the UPDATE matches no row, or the
\* refresh finds none, and the request ends in an exception
update_commit(r) ==
    LET q == inflight[r]
        n == ApplyUpdate(q.row, q.status, now)
        gone == q.id \notin DOMAIN notifications
        after == WriteBack(notifications[q.id], q.row, n)
    IN  /\ r \in DOMAIN inflight
        /\ inflight' = [k \in (DOMAIN inflight) \ {r} |-> inflight[k]]
        /\ IF gone
           THEN /\ resp' = Resp("update_notification", q.cookie, q.bearer, 500, q.user, q.id, Never)
                /\ UNCHANGED <<brokerVars, notifications>>
           ELSE /\ notifications' = [notifications EXCEPT ![q.id] = after]
                /\ publish(q.user, "status_change",
                           [id |-> q.id, status |-> Refreshed(q.row, after).status])
                /\ resp' = Resp("update_notification", q.cookie, q.bearer, 200, q.user, q.id, Never)
        /\ UNCHANGED <<users, tokens, tokenCount, plain, notifCount, now, conns,
                       publishing, loginVars>>

\* DELETE /api/notifications/{notification_id}
delete_notification(c, b, notification_id) ==
    LET a == get_current_user(c, b)
        id == FindNotification(notification_id, a.user)
    IN  /\ tokens' = a.tokens
        /\ IF a.status = 401
           THEN /\ resp' = Resp("delete_notification", c, b, 401, None, 0, Never)
                /\ UNCHANGED notifications
           ELSE IF id = NoChan
           THEN /\ resp' = Resp("delete_notification", c, b, 404, a.user, notification_id, Never)
                /\ UNCHANGED notifications
           ELSE /\ notifications' = [k \in (DOMAIN notifications) \ {id} |-> notifications[k]]
                /\ resp' = Resp("delete_notification", c, b, 204, a.user, id, Never)
        /\ UNCHANGED <<brokerVars, users, tokenCount, plain, notifCount, now, conns, flowVars>>

\* ------------------------------------------------------------- a failing publish
\* SSEBroker.publish raising before it has put the event on any queue
publish_raises(u) ==
    /\ call' = [op |-> "publish", idle |-> LiveOf(u) = {}, raised |-> TRUE]
    /\ UNCHANGED <<subscribers, queues, delivered, chanOwner, live, expected>>

\* create_notification when broker.publish raises: the row is committed, the
\* handler has no except clause around the await, the exception ends the
\* request and the framework answers 500
create_notification_publish_raises(c, b, payload) ==
    LET a == get_current_user(c, b)
        id == notifCount + 1
        n == NewNotification(a.user, payload, now)
    IN  /\ a.status = 401 \/ notifCount < MaxNotifs
        /\ tokens' = a.tokens
        /\ IF a.status = 401
           THEN /\ resp' = Resp("create_notification", c, b, 401, None, 0, Never)
                /\ UNCHANGED <<brokerVars, notifications, notifCount>>
           ELSE /\ notifications' = notifications @@ (id :> n)
                /\ notifCount' = id
                /\ publish_raises(a.user)
                /\ resp' = Resp("create_notification", c, b, 500, a.user, id, Never)
        /\ UNCHANGED <<users, tokenCount, plain, now, conns, flowVars>>

\* update_notification when broker.publish raises
update_notification_publish_raises(c, b, notification_id, status) ==
    LET a == get_current_user(c, b)
        id == FindNotification(notification_id, a.user)
    IN  /\ tokens' = a.tokens
        /\ IF a.status = 401
           THEN /\ resp' = Resp("update_notification", c, b, 401, None, 0, Never)
                /\ UNCHANGED <<brokerVars, notifications>>
           ELSE IF id = NoChan
           THEN /\ resp' = Resp("update_notification", c, b, 404, a.user, notification_id, Never)
                /\ UNCHANGED <<brokerVars, notifications>>
           ELSE /\ notifications' =
                       [notifications EXCEPT ![id] = ApplyUpdate(notifications[id], status, now)]
                /\ publish_raises(a.user)
                /\ resp' = Resp("update_notification", c, b, 500, a.user, id, Never)
        /\ UNCHANGED <<users, tokenCount, plain, notifCount, now, conns, flowVars>>

\* ------------------------------------------------------------- list endpoint
LIMIT_MAX == 200
LIMIT_DEFAULT == 50

\* the query string of GET /api/notifications/: an absent filter is None
\* (Never for since), limit and offset carry their defaults when absent
Query(since, status, priority, source, limit, offset) ==
    [since |-> since, status |-> status, priority |-> priority, source |-> source,
     limit |-> limit, offset |-> offset]

\* Python truth of an optional string: None and "" are false
Truthy(x) == x # None /\ x # ""

\* the WHERE clause: user_id first, then one condition per filter that is true
\* in Python (a datetime always is)
Matching(user_id, q) ==
    {k \in DOMAIN notifications :
        /\ notifications[k].user_id = user_id
        /\ q.since # Never => notifications[k].created_at > q.since
        /\ Truthy(q.status) => notifications[k].status = q.status
        /\ Truthy(q.priority) => notifications[k].priority = q.priority
        /\ Truthy(q.source) => notifications[k].source = q.source}

\* ORDER BY created_at DESC: every order of the rows that never puts an older
\* row before a newer one (rows of one created_at come in any order)
Orderings(S) ==
    {o \in [1..Cardinality(S) -> S] :
        /\ \A i, j \in DOMAIN o : i # j => o[i] # o[j]
        /\ \A i, j \in DOMAIN o :
               i < j => notifications[o[i]].created_at >= notifications[o[j]].created_at}

\* OFFSET offset LIMIT limit on SQLite: a negative LIMIT is no limit
Slice(o, offset, limit) ==
    LET last == IF limit < 0 \/ offset + limit > Len(o) THEN Len(o) ELSE offset + limit
    IN  IF offset >= Len(o) THEN << >> ELSE SubSeq(o, offset + 1, last)

\* Query(le=200) on limit, Query(ge=0) on offset
ValidQuery(q) == q.limit <= LIMIT_MAX /\ q.offset >= 0

\* GET /api/notifications/: the identity is resolved before the query string
\* is validated
list_notifications(c, b, q) ==
    LET a == get_current_user(c, b)
        r == Resp("list_notifications", c, b, a.status, a.user, 0, Never)
    IN  /\ tokens' = a.tokens
        /\ IF a.status = 401
           THEN resp' = r
           ELSE IF ~ValidQuery(q)
           THEN resp' = [r EXCEPT !.status = 422,
                                  !.page = [query |-> q, items |-> << >>, total |-> 0]]
           ELSE \E o \in Orderings(Matching(a.user, q)) :
                    resp' = [r EXCEPT !.page =
                                [query |-> q,
                                 items |-> Slice(o, q.offset, q.limit),
                                 total |-> Cardinality(Matching(a.user, q))]]
        /\ UNCHANGED <<brokerVars, users, tokenCount, plain, notifications, notifCount,
                       now, conns, flowVars>>

\* ------------------------------------------------------------- stream endpoint
\* GET /api/notifications/stream.  The handler subscribes, builds the generator
\* object and returns it inside an EventSourceResponse; no line of
\* event_generator, its try included, has run at that point (pc "created")
\* a connection whose generator has not run: pc is the generator's position,
\* wasEmpty whether its last queue.get() found the queue empty and had to wait;
\* frame (history) is the kind of the last frame it yielded, mark (history) the
\* number of events the queue had ever been given when its last wait began
NewConn(user_id) ==
    [pc |-> "created", user |-> user_id, wasEmpty |-> FALSE, frame |-> "none", mark |-> 0]

stream_notifications(c, b) ==
    LET a == get_current_user(c, b)
    IN  /\ tokens' = a.tokens
        /\ IF a.status = 401
           THEN /\ resp' = Resp("stream", c, b, 401, None, 0, Never)
                /\ UNCHANGED <<brokerVars, conns>>
           ELSE /\ subscribe(a.user)
                /\ conns' = conns @@ (Len(queues) + 1 :>
                       NewConn(a.user))
                /\ resp' = Resp("stream", c, b, 200, a.user, Len(queues) + 1, Never)
        /\ UNCHANGED <<users, tokenCount, plain, notifications, notifCount, now, flowVars>>

\* the response starts iterating the generator: its body enters the try
StartGenerator(q) ==
    /\ conns[q].pc = "created"
    /\ conns' = [conns EXCEPT ![q].pc = "poll"]
    /\ UNCHANGED <<brokerVars, dbVars, now, resp, flowVars>>

\* if await request.is_disconnected(): break  -- and the finally clause;
\* whether the client is gone is the client's choice
PollDisconnected(q, gone) ==
    /\ conns[q].pc = "poll"
    /\ IF gone
       THEN /\ unsubscribe(conns[q].user, q)
            /\ conns' = [conns EXCEPT ![q].pc = "closed"]
       ELSE /\ conns' = [conns EXCEPT ![q].pc = "wait",
                                      ![q].wasEmpty = (queues[q] = << >>),
                                      ![q].mark = Len(delivered[q]) + Len(queues[q])]
            /\ UNCHANGED brokerVars
    /\ UNCHANGED <<dbVars, now, resp, flowVars>>

\* event = await asyncio.wait_for(queue.get(), timeout=30.0); yield event
WaitGet(q) ==
    /\ conns[q].pc = "wait"
    /\ get(q)
    /\ conns' = [conns EXCEPT ![q].pc = "yield", ![q].frame = "event"]
    /\ UNCHANGED <<dbVars, now, resp, flowVars>>

\* a timeout that may fire whatever the queue held when the wait began
WaitTimeoutAnyway(q) ==
    /\ conns[q].pc = "wait"
    /\ conns' = [conns EXCEPT ![q].pc = "yield", ![q].frame = "ping"]
    /\ UNCHANGED <<brokerVars, dbVars, now, resp, flowVars>>

\* except TimeoutError: yield {"event": "ping", "data": ""}.  The timer runs
\* only while get() waits, that is when it found the queue empty; it may fire
\* in the loop turn in which an event arrives, and the cancelled get() then
\* leaves that event in the queue
WaitTimeout(q) ==
    /\ conns[q].pc = "wait"
    /\ conns[q].wasEmpty
    /\ conns' = [conns EXCEPT ![q].pc = "yield", ![q].frame = "ping"]
    /\ UNCHANGED <<brokerVars, dbVars, now, resp, flowVars>>

\* the response has sent the frame and asks the generator for the next one
Resume(q) ==
    /\ conns[q].pc = "yield"
    /\ conns' = [conns EXCEPT ![q].pc = "poll"]
    /\ UNCHANGED <<brokerVars, dbVars, now, resp, flowVars>>

\* the connection is torn down (cancellation, an error in the response, server
\* shutdown).  A generator suspended inside its try gets the exception there and
\* runs the finally clause; a generator that was never started has no frame
\* inside the try, so closing it runs none of its code
Cancel(q) ==
    /\ conns[q].pc # "closed"
    /\ IF conns[q].pc = "created"
       THEN UNCHANGED brokerVars
       ELSE unsubscribe(conns[q].user, q)
    /\ conns' = [conns EXCEPT ![q].pc = "closed"]
    /\ UNCHANGED <<dbVars, now, resp, flowVars>>

\* ------------------------------------------------------------- specifications
\* two users have logged in before; no API token exists, no stream is open and
\* no request has been served
\* no connection, no request and no notification yet
\* no publish call is suspended, no update is under way, no login is pending;
\* the users have logged in at the clock's origin
InitFlow ==
    /\ publishing = {}
    /\ inflight = << >>
    /\ pending_states = {}
    /\ stateCount = 0
    /\ userRows = [u \in UserIds |-> UserRow(SubOf(u), "a@example.org", 0)]

InitCommon ==
    /\ InitFlow
    /\ subscribers = << >>
    /\ queues = << >>
    /\ delivered = << >>
    /\ chanOwner = << >>
    /\ live = {}
    /\ expected = << >>
    /\ call = [op |-> "none", idle |-> FALSE, raised |-> FALSE]
    /\ users = UserIds
    /\ notifications = << >>
    /\ notifCount = 0
    /\ now = 0
    /\ conns = << >>
    /\ resp = NoResp

\* the database holds the users and no token
Init ==
    /\ InitCommon
    /\ tokens = << >>
    /\ tokenCount = 0
    /\ plain = << >>

\* the database holds the users and one token, issued to U1 and not used yet
InitWithToken ==
    /\ InitCommon
    /\ tokens = (1 :> NewToken("U1", 1, 1))
    /\ tokenCount = 1
    /\ plain = (1 :> 1)

apiVars == <<users, tokens, tokenCount, plain, notifications, notifCount, now, conns, resp,
            flowVars>>

BrokerSubscribe ==
    \E u \in UserIds : subscribe(u) /\ UNCHANGED apiVars
BrokerUnsubscribe ==
    \E u \in UserIds, q \in Chans : unsubscribe(u, q) /\ UNCHANGED apiVars
BrokerPublish ==
    \E u \in UserIds, t \in EventTypes, d \in DataVals :
        publish(u, t, d) /\ UNCHANGED apiVars
BrokerGet ==
    \E q \in Chans : get(q) /\ UNCHANGED apiVars

NextBroker ==
    \/ BrokerSubscribe
    \/ BrokerUnsubscribe
    \/ BrokerPublish
    \/ BrokerGet

\* the broker object under any sequence of calls
SpecBroker == Init /\ [][NextBroker]_vars

ReqMe ==
    \E c \in Cookies, b \in Bearers : me(c, b)
ReqListTokens ==
    \E c \in Cookies, b \in Bearers : list_tokens(c, b)
ReqCreateToken ==
    \E c \in Cookies, b \in Bearers : create_token(c, b)
ReqRevokeToken ==
    \E c \in Cookies, b \in Bearers, k \in 1..MaxTokens : revoke_token(c, b, k)

NextAuth ==
    \/ ReqMe
    \/ ReqListTokens
    \/ ReqCreateToken
    \/ ReqRevokeToken
    \/ Tick

\* (no API token exists in this specification: a bearer header would be invalid)
ReqStream ==
    \E c \in Cookies, b \in {NoHeader} : stream_notifications(c, b)
StreamStart == \E q \in DOMAIN conns : StartGenerator(q)
StreamPoll == \E q \in DOMAIN conns, gone \in BOOLEAN : PollDisconnected(q, gone)
StreamGet == \E q \in DOMAIN conns : WaitGet(q)
StreamTimeout == \E q \in DOMAIN conns : WaitTimeout(q)
StreamResume == \E q \in DOMAIN conns : Resume(q)
StreamCancel == \E q \in DOMAIN conns : Cancel(q)

NextStream ==
    \/ ReqStream
    \/ StreamStart
    \/ StreamPoll
    \/ StreamGet
    \/ StreamTimeout
    \/ StreamResume
    \/ StreamCancel
    \/ BrokerPublish

\* stream connections and the publishes that feed them
SpecStream == Init /\ [][NextStream]_vars

\* identity resolution and token management, one request at a time
SpecAuth == Init /\ [][NextAuth]_vars

\* the credentials of a notification request: none, a bearer token no row
\* verifies, or a live session of a user
NotifCreds ==
    {<<NoCookie, NoHeader>>, <<NoCookie, Header("Bearer", 0)>>}
    \cup {<<create_session(u, now), NoHeader>> : u \in UserIds}
ReqCreateNotification ==
    \E cr \in NotifCreds, payload \in Payloads :
        create_notification(cr[1], cr[2], payload)
ReqGetNotification ==
    \E cr \in NotifCreds, k \in 1..MaxNotifs : get_notification(cr[1], cr[2], k)
ReqUpdateNotification ==
    \E cr \in NotifCreds, k \in 1..MaxNotifs, status \in Updates :
        update_notification(cr[1], cr[2], k, status)
ReqDeleteNotification ==
    \E cr \in NotifCreds, k \in 1..MaxNotifs : delete_notification(cr[1], cr[2], k)
\* a list request without a query string
NoQuery == Query(Never, None, None, None, LIMIT_DEFAULT, 0)
ReqListNotifications ==
    \E cr \in NotifCreds : list_notifications(cr[1], cr[2], NoQuery)

NextNotif ==
    \/ ReqCreateNotification
    \/ ReqGetNotification
    \/ ReqUpdateNotification
    \/ ReqDeleteNotification
    \/ Tick

SpecNotif == Init /\ [][NextNotif]_vars

\* SessionManager on its own: any token string, validated at any time
SessionTokens ==
    {Cookie(kind, key, uid, iat) :
        kind \in {"signed", "nouid", "nonmap", "garbage"},
        key \in {SECRET_KEY, OtherKey},
        uid \in UserIds \cup {GhostUser},
        iat \in OldestSession..now}

SessionCheck ==
    \E token \in SessionTokens :
        /\ resp' = [op |-> "validate_session", token |-> token, at |-> now,
                    result |-> validate_session(token, now)]
        /\ UNCHANGED <<brokerVars, dbVars, now, conns, flowVars>>

NextSession ==
    \/ SessionCheck
    \/ Tick

SpecSession == Init /\ [][NextSession]_vars

\* the notification routes while every user has one stream connected: queue 1
\* is U1's, queue 2 is U2's, nothing has been published yet
InitFeed ==
    /\ InitFlow
    /\ subscribers = ("U1" :> {1}) @@ ("U2" :> {2})
    /\ queues = << << >>, << >> >>
    /\ delivered = << << >>, << >> >>
    /\ chanOwner = <<"U1", "U2">>
    /\ live = {1, 2}
    /\ expected = << << >>, << >> >>
    /\ call = [op |-> "subscribe", idle |-> FALSE, raised |-> FALSE]
    /\ users = UserIds
    /\ tokens = << >>
    /\ tokenCount = 0
    /\ plain = << >>
    /\ notifications = << >>
    /\ notifCount = 0
    /\ now = 0
    /\ conns = << >>
    /\ resp = NoResp

NextFeed ==
    \/ ReqListNotifications
    \/ ReqCreateNotification
    \/ ReqGetNotification
    \/ ReqUpdateNotification
    \/ ReqDeleteNotification

SpecFeed == InitFeed /\ [][NextFeed]_vars

\* the endpoints behind get_current_user, called with credentials of every
\* kind while each user has a stream connected and U1 has a token
InitReject ==
    /\ InitFlow
    /\ subscribers = ("U1" :> {1}) @@ ("U2" :> {2})
    /\ queues = << << >>, << >> >>
    /\ delivered = << << >>, << >> >>
    /\ chanOwner = <<"U1", "U2">>
    /\ live = {1, 2}
    /\ expected = << << >>, << >> >>
    /\ call = [op |-> "subscribe", idle |-> FALSE, raised |-> FALSE]
    /\ users = UserIds
    /\ tokens = (1 :> NewToken("U1", 1, 1))
    /\ tokenCount = 1
    /\ plain = (1 :> 1)
    /\ notifications = << >>
    /\ notifCount = 0
    /\ now = 0
    /\ conns = << >>
    /\ resp = NoResp

\* no credential, malformed ones, an expired session, unknown ones, two that
\* fail together; then the token of U1
RejCreds ==
    {<<NoCookie, NoHeader>>,
     <<Cookie("garbage", "", "", 0), NoHeader>>,
     <<NoCookie, Header("Basic", 1)>>,
     <<Cookie("signed", SECRET_KEY, "U1", OldestSession), NoHeader>>,
     <<Cookie("signed", OtherKey, "U1", now), NoHeader>>,
     <<Cookie("signed", SECRET_KEY, GhostUser, now), NoHeader>>,
     <<NoCookie, Header("Bearer", 0)>>,
     <<Cookie("signed", SECRET_KEY, "U1", OldestSession), Header("Bearer", 0)>>,
     <<NoCookie, Header("Bearer", 1)>>}

RejMe == \E cr \in RejCreds : me(cr[1], cr[2])
RejList == \E cr \in RejCreds : list_notifications(cr[1], cr[2], NoQuery)
RejCreate ==
    \E cr \in RejCreds, payload \in Payloads : create_notification(cr[1], cr[2], payload)
RejGet == \E cr \in RejCreds, k \in 1..MaxNotifs : get_notification(cr[1], cr[2], k)
RejUpdate ==
    \E cr \in RejCreds, k \in 1..MaxNotifs :
        update_notification(cr[1], cr[2], k, "read")
RejDelete == \E cr \in RejCreds, k \in 1..MaxNotifs : delete_notification(cr[1], cr[2], k)
RejStream == \E cr \in RejCreds : stream_notifications(cr[1], cr[2])

NextReject ==
    \/ RejMe
    \/ RejList
    \/ RejCreate
    \/ RejGet
    \/ RejUpdate
    \/ RejDelete
    \/ RejStream

SpecReject == InitReject /\ [][NextReject]_vars

\* list_notifications on its own: any table the write routes can leave behind
\* (row k created at created_at by user_id with payload, then updated with
\* status in the same tick; later rows are not older), any query, any caller
ListRows ==
    [user_id : UserIds, payload : Payloads, status : {None, "read", "archived"},
     created_at : 0..MaxTime]
ListTables ==
    UNION {{t \in [1..n -> ListRows] :
               \A i, j \in 1..n : i < j => t[i].created_at <= t[j].created_at} :
           n \in 0..MaxRows}
StoredRow(r) ==
    ApplyUpdate(NewNotification(r.user_id, r.payload, r.created_at), r.status, r.created_at)

InitList ==
    /\ InitFlow
    /\ subscribers = << >>
    /\ queues = << >>
    /\ delivered = << >>
    /\ chanOwner = << >>
    /\ live = {}
    /\ expected = << >>
    /\ call = [op |-> "none", idle |-> FALSE, raised |-> FALSE]
    /\ users = UserIds
    /\ tokens = << >>
    /\ tokenCount = 0
    /\ plain = << >>
    /\ \E t \in ListTables :
           /\ notifications = [k \in DOMAIN t |-> StoredRow(t[k])]
           /\ notifCount = Len(t)
    /\ now = MaxTime
    /\ conns = << >>
    /\ resp = NoResp

\* query strings: none, limit and offset around their bounds, each filter on
\* its own (source= with an empty value included), several filters together
ListQueries ==
    {NoQuery}
    \cup {Query(Never, None, None, None, l, 0) : l \in {0 - 1, 0, 1, 2, LIMIT_MAX, LIMIT_MAX + 1}}
    \cup {Query(Never, None, None, None, l, 1) : l \in {1, 2}}
    \cup {Query(Never, None, None, None, LIMIT_DEFAULT, o) : o \in {0 - 1, 2}}
    \cup {Query(Never, st, None, None, LIMIT_DEFAULT, 0) : st \in {"unread", "read"}}
    \cup {Query(Never, None, pr, None, LIMIT_DEFAULT, 0) : pr \in {"high", "critical"}}
    \cup {Query(Never, None, None, so, LIMIT_DEFAULT, 0) : so \in {"ci", ""}}
    \cup {Query(t, None, None, None, LIMIT_DEFAULT, 0) : t \in 0..MaxTime}
    \cup {Query(0, "unread", "high", "ci", 1, 0)}

ListCreds ==
    {<<NoCookie, NoHeader>>} \cup {<<create_session(u, now), NoHeader>> : u \in UserIds}
ListRequest ==
    \E cr \in ListCreds, q \in ListQueries : list_notifications(cr[1], cr[2], q)

NextList == ListRequest

SpecList == InitList /\ [][NextList]_vars

\* the write routes with a broker whose publish may raise, streams connected
FailCreate ==
    \E cr \in NotifCreds, payload \in Payloads :
        create_notification_publish_raises(cr[1], cr[2], payload)
FailUpdate ==
    \E cr \in NotifCreds, k \in 1..MaxNotifs, status \in Updates :
        update_notification_publish_raises(cr[1], cr[2], k, status)

NextFail ==
    \/ ReqCreateNotification
    \/ ReqUpdateNotification
    \/ FailCreate
    \/ FailUpdate

SpecFail == InitFeed /\ [][NextFail]_vars

\* the database holds UseTokens tokens, issued in turn to U1 and U2 and not used
\* yet; nobody is connected to the stream
UseTokens == MaxTokens + 1
TokenOwner(k) == IF k % 2 = 1 THEN "U1" ELSE "U2"
InitUse ==
    /\ InitCommon
    /\ tokens = [k \in 1..UseTokens |-> NewToken(TokenOwner(k), k, k)]
    /\ tokenCount = UseTokens
    /\ plain = [k \in 1..UseTokens |-> k]

\* the credentials of a request in a deployment with issued tokens: none, a
\* plaintext never issued, each issued plaintext (alone, behind an expired
\* session, behind a live session of U1), a live session alone
UseCreds ==
    {<<NoCookie, NoHeader>>, <<create_session("U1", now), NoHeader>>}
    \cup {<<NoCookie, Header("Bearer", k)>> : k \in 0..UseTokens}
    \cup {<<create_session("U1", OldestSession), Header("Bearer", k)>> : k \in 1..UseTokens}
    \cup {<<create_session("U1", now), Header("Bearer", k)>> : k \in 1..UseTokens}
UseMe == \E cr \in UseCreds : me(cr[1], cr[2])
UseList == \E cr \in UseCreds : list_notifications(cr[1], cr[2], NoQuery)
UseGet == \E cr \in UseCreds, k \in 1..MaxNotifs : get_notification(cr[1], cr[2], k)
UseRevoke == \E cr \in UseCreds, k \in 1..UseTokens : revoke_token(cr[1], cr[2], k)

NextUse ==
    \/ UseMe
    \/ UseList
    \/ UseGet
    \/ UseRevoke
    \/ Tick

SpecUse == InitUse /\ [][NextUse]_vars

\* the broker under handlers that subscribe, unsubscribe, publish and read in
\* any order, every publish followed to the point where it returns or waits
restVars == <<users, tokens, tokenCount, plain, notifications, notifCount, now, conns, resp>>
LoopSubscribe ==
    \E u \in UserIds : subscribe(u) /\ UNCHANGED <<restVars, flowVars>>
LoopUnsubscribe ==
    \E u \in UserIds, q \in Chans : unsubscribe(u, q) /\ UNCHANGED <<restVars, flowVars>>
LoopPublish ==
    \E u \in UserIds, t \in EventTypes, d \in DataVals :
        publish_await(u, t, d) /\ UNCHANGED <<restVars, inflight, loginVars>>
LoopGet ==
    \E q \in Chans : get(q) /\ UNCHANGED <<restVars, flowVars>>

NextLoop ==
    \/ LoopSubscribe
    \/ LoopUnsubscribe
    \/ LoopPublish
    \/ LoopGet

SpecLoop == Init /\ [][NextLoop]_vars

\* two users each have a stream connected whose generator is running; events
\* are published for them while the generators loop and the clients stay or go
EmitChans == {1, 2}
InitEmit ==
    /\ InitFlow
    /\ subscribers = ("U1" :> {1}) @@ ("U2" :> {2})
    /\ queues = << << >>, << >> >>
    /\ delivered = << << >>, << >> >>
    /\ chanOwner = <<"U1", "U2">>
    /\ live = {1, 2}
    /\ expected = << << >>, << >> >>
    /\ call = [op |-> "subscribe", idle |-> FALSE, raised |-> FALSE]
    /\ users = UserIds
    /\ tokens = << >>
    /\ tokenCount = 0
    /\ plain = << >>
    /\ notifications = << >>
    /\ notifCount = 0
    /\ now = 0
    /\ conns = [q \in EmitChans |-> [NewConn(chanOwner[q]) EXCEPT !.pc = "poll"]]
    /\ resp = NoResp

EmitPoll == \E q \in EmitChans, gone \in BOOLEAN : PollDisconnected(q, gone)
EmitGet == \E q \in EmitChans : WaitGet(q)
EmitTimeout == \E q \in EmitChans : WaitTimeout(q)
EmitResume == \E q \in EmitChans : Resume(q)
EmitCancel == \E q \in EmitChans : Cancel(q)

NextEmit ==
    \/ EmitPoll
    \/ EmitGet
    \/ EmitTimeout
    \/ EmitResume
    \/ EmitCancel
    \/ BrokerPublish

\* the event loop runs every generator that can run: a poll of the connection
\* returns, a wait ends with an event or with the timeout, and a client that is
\* connected takes the frame it is offered
EmitFairness ==
    \A q \in EmitChans :
        /\ WF_vars(\E gone \in BOOLEAN : PollDisconnected(q, gone))
        /\ WF_vars(WaitGet(q) \/ WaitTimeout(q))
        /\ WF_vars(Resume(q))

SpecEmit == InitEmit /\ [][NextEmit]_vars /\ EmitFairness

\* U1 has one unread notification; update requests for it are handled
\* concurrently, interleaved at their database awaits
InitRace ==
    /\ InitCommon
    /\ tokens = << >>
    /\ tokenCount = 0
    /\ plain = << >>

RaceCreds == {<<NoCookie, NoHeader>>} \cup {<<create_session(u, now), NoHeader>> : u \in UserIds}
RaceCreate ==
    \E payload \in Payloads : create_notification(create_session("U1", now), NoHeader, payload)
RaceSelect ==
    \E cr \in RaceCreds, k \in 1..MaxNotifs, status \in Updates :
        update_select(cr[1], cr[2], k, status)
RaceCommit == \E r \in 1..MaxFlight : update_commit(r)

NextRace ==
    \/ RaceCreate
    \/ RaceSelect
    \/ RaceCommit
    \/ Tick

SpecRace == InitRace /\ [][NextRace]_vars

\* create, update and delete requests of U1 and of a client without
\* credentials on an empty table; the updates of the first notification are
\* interleaved at their database awaits with each other and with the rest;
\* the clock stands still, every stamp is the one time
StoreCreds == {<<NoCookie, NoHeader>>, <<create_session("U1", now), NoHeader>>}
StoreCreate ==
    \E cr \in StoreCreds :
        create_notification(cr[1], cr[2], CHOOSE p \in Payloads : p.priority = "high")
StoreSelect ==
    \E cr \in StoreCreds, status \in Updates : update_select(cr[1], cr[2], 1, status)
StoreDelete ==
    \E cr \in StoreCreds, k \in 1..MaxNotifs : delete_notification(cr[1], cr[2], k)

NextStore ==
    \/ StoreCreate
    \/ StoreSelect
    \/ RaceCommit
    \/ StoreDelete

SpecStore == InitRace /\ [][NextStore]_vars

\* the table client_tokens holds one token of U1 whose expires_at column is null
\* or a time (no route assigns the column; the row is as the database has it)
InitExpire ==
    /\ InitCommon
    /\ \E e \in {Never} \cup 0..MaxTime :
           tokens = (1 :> [NewToken("U1", 1, 1) EXCEPT !.expires_at = e])
    /\ tokenCount = 1
    /\ plain = (1 :> 1)

ExpireMe == \E c \in Cookies, b \in Bearers : me(c, b)
ExpireList == \E c \in Cookies, b \in Bearers : list_notifications(c, b, NoQuery)

NextExpire ==
    \/ ExpireMe
    \/ ExpireList
    \/ Tick

SpecExpire == InitExpire /\ [][NextExpire]_vars

\* logins started and callbacks arriving with any state value, while the
\* identity provider answers well or fails
LoginStart == \E upstream \in Upstream : login(upstream)
LoginCallback ==
    \E state \in 0..MaxStates, upstream \in Upstream, claims \in IdClaims :
        callback(state, upstream, claims)

NextLogin ==
    \/ LoginStart
    \/ LoginCallback
    \/ Tick

SpecLogin == Init /\ [][NextLogin]_vars

\* notifications of two users created and moved between statuses
MoveCreds == {<<create_session(u, now), NoHeader>> : u \in UserIds}
MoveCreate ==
    \E cr \in MoveCreds, payload \in Payloads : create_notification(cr[1], cr[2], payload)
MoveUpdate ==
    \E cr \in MoveCreds, k \in 1..MaxNotifs, status \in Updates :
        update_notification(cr[1], cr[2], k, status)

NextMove ==
    \/ MoveCreate
    \/ MoveUpdate
    \/ Tick

SpecMove == Init /\ [][NextMove]_vars

\* sessions in use before and after logout requests, a token being issued
OutMe == \E c \in Cookies, b \in Bearers : me(c, b)
OutLogout == \E c \in Cookies, b \in Bearers : logout(c, b)

NextLogout ==
    \/ OutMe
    \/ OutLogout
    \/ Tick

SpecLogout == InitWithToken /\ [][NextLogout]_vars

\* notifications posted with any cookie and any header, a token being issued
PostNotification ==
    \E c \in Cookies, b \in Bearers, payload \in Payloads :
        create_notification(c, b, payload)

NextCreate ==
    \/ PostNotification
    \/ Tick

SpecCreate == InitWithToken /\ [][NextCreate]_vars

\* ------------------------------------------------------------- identity claims
\* the operations behind Depends(get_current_user) and Depends(require_session)
GuardedOps == {"me"}
TokenOps == {"list_tokens", "create_token", "revoke_token"}

C2_TokenOpsNeedSession ==
    [][/\ (resp'.op \in TokenOps /\ resp'.cookie \notin UserIds)
          => (resp'.status = 401 /\ tokens' = tokens)
       /\ (DOMAIN tokens' # DOMAIN tokens)
          => /\ resp'.op \in {"create_token", "revoke_token"}
             /\ resp'.cookie \in UserIds
             /\ resp'.status # 401]_vars

\* revoke_token for a stored token, with that token as the only credential, was
\* answered 401
C2_Witness ==
    /\ resp.op = "revoke_token"
    /\ resp.cookie = "absent"
    /\ resp.bearer \in UserIds
    /\ resp.id \in DOMAIN tokens
    /\ resp.status = 401

\* ------------------------------------------------------------- stream claims
\* C8: the queue a stream request subscribed is unsubscribed once its connection
\* has ended, whatever ended it: no closed connection has its queue registered.
C8_ClosedIsUnsubscribed ==
    \A q \in DOMAIN conns :
        conns[q].pc = "closed" => q \notin PublishTargets(subscribers, conns[q].user)

\* ------------------------------------------------------------- broker claims
Range(f) == {f[i] : i \in DOMAIN f}

\* every event queue q has ever held, oldest first: what get() has returned,
\* then what is still queued
Hist(q) == delivered[q] \o queues[q]

\* C3: every queue registered for the user when publish is called receives the
\* event exactly once, and each queue holds and yields its events in the order
\* of the publish calls.
C3_FanOutFifo ==
    \A q \in Chans :
        /\ \A n \in Range(expected[q]) :
               Cardinality({i \in DOMAIN Hist(q) : Hist(q)[i].seq = n}) = 1
        /\ \A i, j \in DOMAIN Hist(q) : i < j => Hist(q)[i].seq < Hist(q)[j].seq

\* two queues of one user have both yielded two events
C3_Witness ==
    \E q1, q2 \in Chans :
        /\ q1 # q2
        /\ chanOwner[q1] = chanOwner[q2]
        /\ Len(delivered[q1]) = 2
        /\ Len(delivered[q2]) = 2

\* C4: a publish for a user with no registered queue raises nothing, enqueues
\* nothing on any queue and leaves the registry as it was.
C4_PublishNoSubscriber ==
    [][(call'.op = "publish" /\ call'.idle)
        => /\ \A q \in Chans : Hist(q)' = Hist(q)
           /\ Chans' = Chans
           /\ subscribers' = subscribers
           /\ ~call'.raised]_vars

\* such a publish has happened while another user had a registered queue
C4_Witness ==
    /\ call.op = "publish"
    /\ call.idle
    /\ live # {}

\* C5: a queue only ever holds events published for its user while it was
\* registered: nothing published before subscribe returned it, nothing published
\* after its owner unsubscribed it.
C5_OnlyWhileRegistered ==
    \A q \in Chans :
        \A i \in DOMAIN Hist(q) : Hist(q)[i].seq \in Range(expected[q])

\* one user: q1 saw publish 1 and was unsubscribed, q2 was subscribed after
\* publish 1 and saw publish 2
C5_Witness ==
    \E q1, q2 \in Chans :
        /\ chanOwner[q1] = chanOwner[q2]
        /\ q1 \notin live
        /\ expected[q1] = <<1>>
        /\ expected[q2] = <<2>>
        /\ Len(Hist(q1)) = 1
        /\ Len(Hist(q2)) = 1

\* C6: unsubscribe for a queue that is not registered under the user (removed
\* before, or the user has no entry) raises nothing and leaves the registry as
\* it was.
C6_UnsubscribeIdempotent ==
    [][(call'.op = "unsubscribe" /\ call'.idle)
        => (subscribers' = subscribers /\ ~call'.raised)]_vars

\* unsubscribe was called again after every queue had been removed
C6_Witness ==
    /\ call.op = "unsubscribe"
    /\ call.idle
    /\ Chans # {}
    /\ live = {}
    /\ subscribers = << >>

\* C7: the registry has an entry for a user exactly when the user has a
\* registered queue, and no entry is an empty set.
C7_NoEmptyEntry ==
    \A u \in UserIds \cup DOMAIN subscribers :
        /\ (u \in DOMAIN subscribers) <=> (LiveOf(u) # {})
        /\ u \in DOMAIN subscribers => subscribers[u] # {}

\* a user's last queue has just been removed while another user keeps one
C7_Witness ==
    /\ call.op = "unsubscribe"
    /\ ~call.idle
    /\ \E u \in UserIds : u \notin DOMAIN subscribers /\ \E q \in Chans : chanOwner[q] = u
    /\ subscribers # << >>

\* ------------------------------------------------------------- notification claims
\* C9: read_at is assigned once, by the first update that sets status to read,
\* to the time of that update; no later request changes it or resets it to
\* null, and a notification whose status is read has it set.
C9_ReadAtSetOnce ==
    [][\A k \in DOMAIN notifications \cap DOMAIN notifications' :
          LET old == notifications[k]
              new == notifications'[k]
          IN  /\ old.read_at # Never => new.read_at = old.read_at
              /\ (old.read_at = Never /\ new.read_at # Never)
                 => /\ resp'.op = "update_notification"
                    /\ resp'.status = 200
                    /\ resp'.id = k
                    /\ new.status = "read"
                    /\ new.read_at = now
              /\ new.status = "read" => new.read_at # Never]_vars

\* a notification read at time 0 was updated at a later time, is unread again
\* and still has read_at 0
C9_Witness ==
    /\ resp.op = "update_notification"
    /\ resp.status = 200
    /\ resp.id \in DOMAIN notifications
    /\ notifications[resp.id].status = "unread"
    /\ notifications[resp.id].read_at = 0
    /\ now > 0

\* the user a request authenticates as: the session's, else the bearer token's
Caller(r) == IF r.cookie \in UserIds THEN r.cookie ELSE r.bearer

\* C10: a row appears in notifications only by a create_notification answered
\* 201, and it is stored with status unread, read_at null and the user_id of
\* the authenticated caller, whatever the body carries; each such answer names
\* the row it inserted.
C10_CreatedUnreadOwned ==
    [][/\ \A k \in (DOMAIN notifications') \ (DOMAIN notifications) :
             /\ resp'.op = "create_notification"
             /\ resp'.status = 201
             /\ resp'.id = k
             /\ Caller(resp') \in UserIds
             /\ notifications'[k].user_id = Caller(resp')
             /\ notifications'[k].status = "unread"
             /\ notifications'[k].read_at = Never
       /\ (resp'.op = "create_notification" /\ resp'.status = 201 /\ resp' # resp)
          => resp'.id \in (DOMAIN notifications') \ (DOMAIN notifications)]_vars

\* "Test alert", priority high, source ci, posted with U1's bearer token as the
\* only credential, is stored unread, never read and owned by U1
C10_Witness ==
    /\ resp.op = "create_notification"
    /\ resp.status = 201
    /\ resp.cookie = "absent"
    /\ resp.bearer = "U1"
    /\ resp.id \in DOMAIN notifications
    /\ notifications[resp.id].title = "Test alert"
    /\ notifications[resp.id].priority = "high"
    /\ notifications[resp.id].source = "ci"
    /\ notifications[resp.id].user_id = "U1"
    /\ notifications[resp.id].status = "unread"
    /\ notifications[resp.id].read_at = Never

ByIdOps == {"get_notification", "update_notification", "delete_notification"}

\* C11: a get, update or delete by an authenticated caller for an id that is
\* not stored or is stored for another user is answered 404 in both cases; a
\* 404 leaves the notifications table as it was and calls no publish; the items
\* of a list response are stored notifications of the caller.
C11_NotFoundOrNotOwned ==
    [][/\ (/\ resp' # resp
           /\ resp'.op \in ByIdOps
           /\ resp'.user \in UserIds
           /\ \/ resp'.id \notin DOMAIN notifications
              \/ notifications[resp'.id].user_id # resp'.user)
          => resp'.status = 404
       /\ (resp'.op \in ByIdOps /\ resp'.status = 404)
          => (notifications' = notifications /\ call' = call /\ queues' = queues)
       /\ (resp'.op = "list_notifications" /\ resp'.status = 200)
          => \A i \in DOMAIN resp'.page.items :
                 /\ resp'.page.items[i] \in DOMAIN notifications'
                 /\ notifications'[resp'.page.items[i]].user_id = resp'.user]_vars

\* an update of a stored notification by a user who does not own it was
\* answered 404
C11_Witness ==
    /\ resp.op = "update_notification"
    /\ resp.status = 404
    /\ resp.user \in UserIds
    /\ resp.id \in DOMAIN notifications
    /\ notifications[resp.id].user_id # resp.user

\* ------------------------------------------------------------- token claims
\* C12: in every state reached by token creations and revocations, a bearer
\* header authenticates as user u exactly when a stored ClientToken of u was
\* created from the plaintext it carries: a fresh plaintext works at once, any
\* other string fails, a revoked plaintext fails at once.
C12_TokenAuthIffStored ==
    \A b \in Bearers : \A u \in UserIds :
        (get_current_user_from_token(b).user = u)
        <=> /\ b.scheme = "Bearer"
            /\ \E k \in DOMAIN tokens : plain[k] = b.cred /\ tokens[k].user_id = u

\* a token was issued and has just been revoked: its plaintext no longer
\* authenticates
C12_Witness ==
    /\ resp.op = "revoke_token"
    /\ resp.status = 204
    /\ resp.id \in DOMAIN plain
    /\ resp.id \notin DOMAIN tokens
    /\ get_current_user_from_token(Header("Bearer", plain[resp.id])).user = None

\* ------------------------------------------------------------- session claims
\* C13: validate_session returns the uid of a token that create_session made
\* with the same secret and that is at most SESSION_MAX_AGE old, and None for
\* every other string: another secret, an older token, a string that is no
\* signed payload carrying uid.
C13_SessionRoundTrip ==
    resp.op = "validate_session" =>
        resp.result =
            IF /\ resp.token.kind = "signed"
               /\ resp.token.key = SECRET_KEY
               /\ (resp.at - resp.token.iat) * TickSeconds <= SESSION_MAX_AGE
            THEN resp.token.uid
            ELSE None

\* ------------------------------------------------------------- rejection claims
AnyOps ==
    {"me", "stream", "list_notifications", "create_notification", "get_notification",
     "update_notification", "delete_notification"}

Supplied(user_id, q) ==
    {k \in DOMAIN notifications :
        /\ notifications[k].user_id = user_id
        /\ q.since # Never => notifications[k].created_at > q.since
        /\ q.status # None => notifications[k].status = q.status
        /\ q.priority # None => notifications[k].priority = q.priority
        /\ q.source # None => notifications[k].source = q.source}

\* positions offset + 1 .. offset + limit of o
Window(o, offset, limit) ==
    [i \in 1..(IF limit <= 0 \/ offset >= Len(o) THEN 0
               ELSE IF offset + limit > Len(o) THEN Len(o) - offset
               ELSE limit) |-> o[offset + i]]

\* C15: a list response has total = the number of the caller's notifications
\* that match all supplied filters, whatever limit and offset are, and its
\* items are those notifications at positions offset up to offset + limit of a
\* created_at-descending order.
C15_ListPage ==
    (resp.op = "list_notifications" /\ resp.status = 200) =>
        LET q == resp.page.query
            M == Supplied(resp.user, q)
        IN  /\ resp.page.total = Cardinality(M)
            /\ \E o \in Orderings(M) : resp.page.items = Window(o, q.offset, q.limit)

\* C16: a list request whose limit is above 200 or whose offset is below 0 is
\* answered with a validation error and no items; every other one is answered
\* with at most limit items and never more than 200.
C16_AtMostLimit ==
    (resp.op = "list_notifications" /\ resp.status # 401) =>
        LET q == resp.page.query
        IN  IF q.limit > LIMIT_MAX \/ q.offset < 0
            THEN resp.status = 422 /\ resp.page.items = << >>
            ELSE /\ resp.status = 200
                 /\ Len(resp.page.items) <= q.limit
                 /\ Len(resp.page.items) <= LIMIT_MAX

\* ------------------------------------------------------------- event claims
\* C17: an event is put on a queue by create_notification or update_notification
\* only, built from the row as committed in that request: a "notification"
\* event carries the stored new row, a "status_change" event the stored status,
\* and the row belongs to the user the queue was subscribed for.
C17_EventAfterCommit ==
    [][\A q \in Chans :
          Len(Hist(q)') > Len(Hist(q)) =>
             LET ev == Hist(q)'[Len(Hist(q)')]
                 d == ev.data[2]
             IN  /\ Len(Hist(q)') = Len(Hist(q)) + 1
                 /\ d.id \in DOMAIN notifications'
                 /\ notifications'[d.id].user_id = chanOwner[q]
                 /\ IF ev.event = "notification"
                    THEN /\ resp'.op = "create_notification"
                         /\ d.id \notin DOMAIN notifications
                         /\ d.row = notifications'[d.id]
                    ELSE /\ ev.event = "status_change"
                         /\ resp'.op = "update_notification"
                         /\ d.status = notifications'[d.id].status]_vars

\* a queue holds the "notification" event of a row and the "status_change"
\* event of its update to read, while the other user's queue holds nothing
C17_Witness ==
    \E q, p \in Chans :
        /\ Len(Hist(q)) = 2
        /\ Hist(q)[1].event = "notification"
        /\ Hist(q)[2].event = "status_change"
        /\ Hist(q)[2].data[2].status = "read"
        /\ Hist(p) = << >>

WriteOps == {"create_notification", "update_notification"}

\* C18: a write request that got as far as its commit is answered with its
\* success response and its row stays stored, whether the publish that follows
\* the commit fails or not.
C18_PublishFailureIsolated ==
    (resp.op \in WriteOps /\ resp.status \notin {401, 404}) =>
        /\ resp.status = IF resp.op = "create_notification" THEN 201 ELSE 200
        /\ resp.id \in DOMAIN notifications

\* C19: no stored ClientToken holds the plaintext of any token ever issued
\* (it holds its hash); a plaintext appears in a response only as the token of
\* the create_token answer that generated it; the items of a list_tokens answer
\* carry neither a token nor a token_hash.
C19_SecretOnlyAtCreation ==
    /\ \A k \in DOMAIN tokens :
          /\ "token" \notin DOMAIN tokens[k]
          /\ \A j \in DOMAIN plain : tokens[k].token_hash.digest # plain[j]
    /\ resp.token # Never
          => /\ resp.op = "create_token"
             /\ resp.status = 201
             /\ resp.token = plain[resp.id]
    /\ resp.op = "list_tokens"
          => \A i \in DOMAIN resp.page.items :
                 DOMAIN resp.page.items[i] \cap {"token", "token_hash"} = {}

\* a session user has listed their tokens, one of them issued earlier and used
\* since, and the answer carries no secret
C19_Witness ==
    /\ resp.op = "list_tokens"
    /\ resp.status = 200
    /\ Len(resp.page.items) > 0
    /\ resp.page.items[1].last_used_at # Never
    /\ resp.token = Never

\* C20: a request behind get_current_user that carries no valid session and the
\* plaintext of a stored token (it is authenticated by the bearer token) leaves
\* one ClientToken of the answering user with last_used_at = the time of the
\* request, and every other ClientToken exactly as it was; the stamp is in the
\* store by the time the user is answered.
C20_StampsMatchingTokenOnly ==
    [][(/\ now' = now
        /\ resp'.op \in AnyOps
        /\ resp'.cookie \notin UserIds
        /\ resp'.bearer \in UserIds)
       => /\ resp'.status # 401
          /\ resp'.user = resp'.bearer
          /\ DOMAIN tokens' = DOMAIN tokens
          /\ \E k \in DOMAIN tokens :
                /\ tokens[k].user_id = resp'.user
                /\ tokens'[k] = [tokens[k] EXCEPT !.last_used_at = now]
                /\ \A j \in DOMAIN tokens \ {k} : tokens'[j] = tokens[j]]_vars

\* U2's token has just authenticated a request at a later time than U1's token
\* did: it carries the later stamp, U1's token still carries the earlier one
C20_Witness ==
    /\ resp.op \in AnyOps
    /\ resp.cookie \notin UserIds
    /\ resp.bearer = "U2"
    /\ resp.user = "U2"
    /\ {1, 2} \subseteq DOMAIN tokens
    /\ tokens[2].last_used_at = now
    /\ tokens[1].last_used_at \notin {Never, now}

\* C21: a logout request changes nothing on the server: users, tokens,
\* notifications, queues and connections are as before, and every session
\* cookie validates after it to what it validated to before it, so a session
\* issued before the logout resolves to the same user until it expires.
C21_LogoutKeepsSessions ==
    [][(resp'.op = "logout" /\ now' = now)
       => /\ dbVars' = dbVars
          /\ brokerVars' = brokerVars
          /\ conns' = conns
          /\ \A c \in Cookies :
                /\ validate_session(c, now') = validate_session(c, now)
                /\ get_current_user_from_session(c)' = get_current_user_from_session(c)]_vars

\* the holder of a live session of U1, issued a tick ago, has logged out while
\* a token is stored; the session still resolves to U1
C21_Witness ==
    /\ resp.op = "logout"
    /\ resp.cookie = "U1"
    /\ now > 0
    /\ tokens # << >>
    /\ get_current_user_from_session(create_session("U1", now - 1)) = "U1"

\* C22: a publish call never waits for a consumer: in the very step of the
\* call, whatever the queues hold undelivered, every queue the user has live
\* gets the call's event appended, and no publish call is left suspended.
C22_PublishNeverWaits ==
    [][/\ publishing' = {}
       /\ \A q \in Chans :
             expected'[q] # expected[q]
                => /\ Len(queues'[q]) = Len(queues[q]) + 1
                   /\ queues'[q][Len(queues'[q])].seq = expected'[q][Len(expected'[q])]]_vars

\* a queue nobody has read from holds an event, and a publish issued after
\* that event has put its own event on another queue
C22_Witness ==
    \E q1, q2 \in Chans :
        /\ q1 # q2
        /\ delivered[q1] = << >>
        /\ queues[q1] # << >>
        /\ \E i \in DOMAIN Hist(q2) : Hist(q2)[i].seq > queues[q1][1].seq

\* C23: no step changes the queue set of a user while a publish call for that
\* user is suspended inside its loop over that set.
C23_NoMutationDuringIteration ==
    [][\A p \in publishing :
          PublishTargets(subscribers, p.user)' = PublishTargets(subscribers, p.user)]_vars

\* a user whose two queues both got an event of one publish call has since
\* lost or gained a queue
C23_Witness ==
    /\ call.op \in {"subscribe", "unsubscribe"}
    /\ \E q1, q2 \in Chans :
          /\ q1 # q2
          /\ chanOwner[q1] = chanOwner[q2]
          /\ Hist(q1) # << >>
          /\ Hist(q2) # << >>
          /\ Hist(q1)[1].seq = Hist(q2)[1].seq
          /\ q1 \notin PublishTargets(subscribers, chanOwner[q1])

\* the numbers of the publish calls whose events are in the sequence evs
SeqsIn(evs) == {evs[i].seq : i \in DOMAIN evs}

\* C24: the stream loop takes the events of its queue oldest first and discards
\* none (what the queue was ever given only grows at its end, and what the loop
\* has emitted is a prefix of it); it yields a ping only when every event the
\* queue had been given when the wait began was emitted before; and an event on
\* the queue of a connection is eventually emitted unless the connection closes.
C24_QueuedIsEmitted ==
    /\ [][\A q \in EmitChans :
             /\ Len(Hist(q)') >= Len(Hist(q))
             /\ SubSeq(Hist(q)', 1, Len(Hist(q))) = Hist(q)
             /\ delivered'[q] # delivered[q]
                   => /\ delivered'[q] = Append(delivered[q], Head(queues[q]))
                      /\ conns'[q].frame = "event"
             /\ (conns[q].pc = "wait" /\ conns'[q].pc = "yield" /\ conns'[q].frame = "ping")
                   => /\ Len(delivered[q]) >= conns[q].mark
                      /\ delivered'[q] = delivered[q]]_vars
    /\ \A q \in EmitChans : \A n \in 1..MaxPublish :
          (n \in SeqsIn(queues[q])) ~> (n \in SeqsIn(delivered[q]) \/ conns[q].pc = "closed")

\* a connection has emitted an event, waited on its empty queue, and yielded
\* a ping in the loop turn in which a further event arrived; the event is still
\* queued
C24_Witness ==
    \E q \in EmitChans :
        /\ Len(delivered[q]) >= 1
        /\ conns[q].pc = "yield"
        /\ conns[q].frame = "ping"
        /\ queues[q] # << >>

\* C25: when update requests for one notification are handled concurrently,
\* a read_at that a commit has stored is not changed by the commit of another
\* request.
C25_ConcurrentReadAtOnce ==
    [][\A r \in DOMAIN inflight : \A id \in DOMAIN notifications :
          (/\ r \notin DOMAIN inflight'
           /\ inflight[r].id = id
           /\ notifications[id].read_at # Never
           /\ id \in DOMAIN notifications')
              => notifications'[id].read_at = notifications[id].read_at]_vars

\* C26: whatever status a stored notification has, an update request of its
\* owner for any status of unread, read, archived is answered 200 and leaves
\* the notification with the requested status; no move is refused, backward
\* moves included.
C26_AnyTransitionAllowed ==
    \A k \in DOMAIN notifications : \A s \in Statuses :
        /\ notifications[k].status \in Statuses
        /\ ENABLED (/\ update_notification(create_session(notifications[k].user_id, now),
                                           NoHeader, k, s)
                    /\ resp'.status = 200
                    /\ resp'.id = k
                    /\ notifications'[k].status = s)
        /\ ~ ENABLED (/\ update_notification(create_session(notifications[k].user_id, now),
                                             NoHeader, k, s)
                      /\ \/ resp'.status # 200
                         \/ notifications'[k].status # s)

\* a notification that was read has just been moved back to unread
C26_Witness ==
    /\ resp.op = "update_notification"
    /\ resp.status = 200
    /\ resp.id \in DOMAIN notifications
    /\ notifications[resp.id].status = "unread"
    /\ notifications[resp.id].read_at = now

C28_StateAuthorisesOnce ==
    [][(resp'.op = "callback" /\ now' = now)
       => /\ resp'.id \notin pending_states
             => /\ resp'.status = 307
                /\ resp'.set_cookie = NoCookie
                /\ users' = users
                /\ userRows' = userRows
                /\ pending_states' = pending_states
          /\ resp'.id \in pending_states
             => pending_states' = pending_states \ {resp'.id}
          /\ resp'.set_cookie # NoCookie => resp'.id \in pending_states]_vars

\* a state that login issued and a callback has used was presented again and
\* refused, after a login through it had succeeded
C28_Witness ==
    /\ resp.op = "callback"
    /\ resp.status = 307
    /\ resp.id \in 1..stateCount
    /\ resp.id \notin pending_states
    /\ NewUserId \in users

\* C29: a callback with a pending state during which the discovery, the code
\* exchange or the ID-token validation fails ends in an error: no user row is
\* created or changed, no session cookie is set, and the state is no longer
\* pending, so the same callback cannot be replayed.
C29_FailedLoginLeavesNothing ==
    [][(/\ resp'.op = "callback"
        /\ now' = now
        /\ resp'.id \in pending_states
        /\ resp'.status # 302)
       => /\ resp'.status = 500
          /\ resp'.set_cookie = NoCookie
          /\ resp'.user = None
          /\ users' = users
          /\ userRows' = userRows
          /\ dbVars' = dbVars
          /\ resp'.id \notin pending_states']_vars

\* a callback has failed upstream on a state login had issued; the state is
\* consumed and no user was added
C29_Witness ==
    /\ resp.op = "callback"
    /\ resp.status = 500
    /\ resp.id \in 1..stateCount
    /\ resp.id \notin pending_states
    /\ users = UserIds

\* C30: a publish call for user u puts nothing on a queue that is registered
\* under another user or was made for another user: such a queue holds and has
\* yielded after the call exactly what it did before; and no queue is ever
\* registered under a user it was not made for.
C30_NoCrossUserEvents ==
    [][/\ \A u \in UserIds : \A t \in EventTypes : \A d \in DataVals :
             (call'.op = "publish" /\ queues' # queues /\ publish(u, t, d))
                => \A q \in Chans :
                      (chanOwner[q] # u
                       \/ \E v \in UserIds \ {u} : q \in PublishTargets(subscribers, v))
                         => /\ queues'[q] = queues[q]
                            /\ delivered'[q] = delivered[q]
       /\ \A v \in DOMAIN subscribers' : \A q \in subscribers'[v] : chanOwner'[q] = v]_vars

\* an event has just been published for one user while another user had a
\* registered queue, which is still empty and has yielded nothing
C30_Witness ==
    /\ call.op = "publish"
    /\ ~call.idle
    /\ \E q1, q2 \in live :
          /\ chanOwner[q1] # chanOwner[q2]
          /\ q2 \in PublishTargets(subscribers, chanOwner[q2])
          /\ queues[q1] # << >>
          /\ Hist(q2) = << >>

\* C31: a request behind get_current_user whose session cookie resolves to a
\* user is answered as that user and the bearer path is not taken: whatever
\* the Authorization header holds (a stored token's plaintext included), the
\* ClientToken table after the request is the table before it, last_used_at
\* of the presented token included.
C31_SessionSkipsTokenPath ==
    [][(/\ now' = now
        /\ resp'.op \in AnyOps
        /\ resp'.cookie \in UserIds)
       => /\ resp'.status # 401
          /\ resp'.user = resp'.cookie
          /\ tokens' = tokens]_vars

\* U1's live session came with the plaintext of U2's token, which had
\* authenticated a request of its own at an earlier time: the answer is for
\* U1, and the token still carries the earlier stamp
C31_Witness ==
    /\ resp.op \in AnyOps
    /\ resp.cookie = "U1"
    /\ resp.bearer = "U2"
    /\ resp.user = "U1"
    /\ resp.status = 200
    /\ 2 \in DOMAIN tokens
    /\ tokens[2].last_used_at \notin {Never, now}

\* C32: in every state reached by create, update and delete requests, handled
\* one after another or concurrently, a stored notification whose status is
\* read has a read_at that is not null.
C32_ReadHasReadAt ==
    \A k \in DOMAIN notifications :
        notifications[k].status = "read" => notifications[k].read_at # Never

\* an update has been answered 200 and its notification is read and stamped,
\* while another update that loaded the row before it was stamped is still on
\* its way to its commit
C32_Witness ==
    /\ resp.op = "update_notification"
    /\ resp.status = 200
    /\ resp.id \in DOMAIN notifications
    /\ notifications[resp.id].status = "read"
    /\ notifications[resp.id].read_at # Never
    /\ \E r \in DOMAIN inflight :
          /\ inflight[r].id = resp.id
          /\ inflight[r].row.read_at = Never

====
